---- MODULE Spec2Model ----
(***************************************************************************)
(* DigiDisplay: the media acquisition subsystem.                           *)
(*                                                                         *)
(*   VideoManager (Debug/projects/DigiDisplay/js/main.js): download of a   *)
(*   remote video into videos/, the library listing, delete and clear-all. *)
(*   VideoPlayer (js/main.js): loadVideo and its readiness race.           *)
(*                                                                         *)
(* Strings are sequences of tokens: the separators "/", ".", "?" and "_"   *)
(* are tokens of their own and every other token is a word without a      *)
(* separator in it, so that split, pop, join and endsWith act as they do   *)
(* on the characters.  Numbers are formatted with ToString.                *)
(***************************************************************************)
EXTENDS Integers, Sequences, FiniteSets, TLC

\* ------------------------------------------------------------------ bounds
\* Date.now() runs over 1..MaxNow.
MaxNow == 2
\* Concurrent downloadVideo invocations the model has room for.
MaxTasks == 2
\* Concurrent loadVideoLibrary invocations the model has room for.
MaxListings == 2
\* Concurrent clearAllVideos invocations the model has room for.
MaxClears == 1
\* Concurrent deleteVideo invocations the model has room for.
MaxDeletes == 1
\* Content length, in units, of every remote resource.
ContentLength == 2

\* --------------------------------------------------------- string helpers
RECURSIVE SplitFrom(_, _, _, _)
SplitFrom(s, sep, acc, cur) ==
    IF s = <<>> THEN Append(acc, cur)
    ELSE IF Head(s) = sep THEN SplitFrom(Tail(s), sep, Append(acc, cur), <<>>)
    ELSE SplitFrom(Tail(s), sep, acc, Append(cur, Head(s)))

\* String.prototype.split(sep)
split(s, sep) == SplitFrom(s, sep, <<>>, <<>>)

\* the value Array.prototype.pop() returns
pop(parts) == parts[Len(parts)]

\* the array Array.prototype.pop() leaves
popped(parts) == SubSeq(parts, 1, Len(parts) - 1)

RECURSIVE join(_, _)
\* Array.prototype.join(sep)
join(parts, sep) ==
    IF parts = <<>> THEN <<>>
    ELSE IF Len(parts) = 1 THEN parts[1]
    ELSE parts[1] \o <<sep>> \o join(Tail(parts), sep)

\* String.prototype.includes(tok)
includes(s, tok) == \E i \in 1..Len(s) : s[i] = tok

LowerWord(w) == CASE w = "MP4" -> "mp4" [] w = "MKV" -> "mkv" [] OTHER -> w

\* String.prototype.toLowerCase()
toLowerCase(s) == [i \in 1..Len(s) |-> LowerWord(s[i])]

\* String.prototype.endsWith(suffix)
endsWith(s, suffix) ==
    /\ Len(s) >= Len(suffix)
    /\ SubSeq(s, Len(s) - Len(suffix) + 1, Len(s)) = suffix

RemoveAt(s, i) == SubSeq(s, 1, i - 1) \o SubSeq(s, i + 1, Len(s))

\* ----------------------------------------------------------- VideoManager
supportedFormats == <<"mp4", "avi", "mkv", "webm", "mov">>

\* The URLs typed into the video-url field.
UrlClip == <<"https:", "/", "/", "host", "/", "clip", ".", "mp4">>
UrlMovie == <<"https:", "/", "/", "host", "/", "movie", ".", "MKV">>
UrlNoExt == <<"https:", "/", "/", "host", "/", "clip">>
UrlQuery == <<"https:", "/", "/", "host", "/", "clip", ".", "mp4", "?", "q">>
UrlBad == <<"clip", ".", "mp4">>
UrlEmpty == <<>>
Urls == {UrlClip, UrlMovie, UrlNoExt, UrlQuery, UrlBad, UrlEmpty}

\* The statuses the server answers with.
HttpStatuses == {200, 204, 404}

\* this.maxFileSize = 500 * 1024 * 1024
maxFileSize == 500 * 1024 * 1024

\* The length in bytes of the content behind a URL: the movie is one byte over
\* maxFileSize, every other content is ContentLength bytes long. Progress is
\* counted in ContentLength equal shares of the content.
contentLength(url) == IF url = UrlMovie THEN maxFileSize + 1 ELSE ContentLength

\* new URL(string) succeeds: an absolute URL with a scheme and a host.
isValidUrl(string) ==
    /\ Len(string) >= 4
    /\ string[1] \in {"https:", "http:"}
    /\ string[2] = "/" /\ string[3] = "/"
    /\ string[4] \notin {"/", ".", "?"}

isSupportedFormat(url) ==
    LET extension == toLowerCase(pop(split(url, ".")))
    IN  \E i \in 1..Len(supportedFormats) : extension = <<supportedFormats[i]>>

\* generateFilename(url), with Date.now() = t
generateFilename(url, t) ==
    LET urlParts == split(url, "/")
        last == urlParts[Len(urlParts)]
        noQuery == split(last, "?")[1]
        filename == IF ~includes(noQuery, ".")
                    THEN <<"video", "_", ToString(t), ".", "mp4">>
                    ELSE noQuery
        nameParts == split(filename, ".")
        extension == pop(nameParts)
        name == join(popped(nameParts), ".")
    IN  name \o <<"_", ToString(t), ".">> \o extension

\* The files videos/ may hold when the application starts.
FileClip2 == [name |-> <<"clip", "_", "2", ".", "mp4">>, size |-> 3]
FileOld == [name |-> <<"old", ".", "MKV">>, size |-> 5]
FileNotes == [name |-> <<"notes", ".", "txt">>, size |-> 1]
InitialListings ==
    { <<>>, <<FileClip2>>, <<FileOld, FileNotes, FileClip2>> }

VARIABLES
    now,            \* Date.now()
    dirExists,      \* Storage Gateway: documents/videos exists
    videos,         \* Storage Gateway: the files of videos/, in listing order
    isDownloading,  \* VideoManager.isDownloading
    tasks,          \* the downloadVideo invocations in flight
    lastResult,     \* how the last downloadVideo invocation ended
    downloadStatus, \* text of #download-status
    progressContainer,    \* style.display of #download-progress
    resetTimer,     \* a 3 s timer of downloadVideo's finally block is armed
    notification,   \* text of the last showNotification
    videoList,      \* #video-list: [msg, items]
    listEnsuring,   \* loadVideoLibrary invocations awaiting ensureVideosDirectory
    listListing,    \* loadVideoLibrary invocations awaiting the listFiles callback
    clears,         \* the clearAllVideos invocations in flight
    lastClear,      \* how the last clearAllVideos loop ended
    deletes         \* the deleteVideo invocations in flight

storeVars == <<dirExists, videos>>
barVars == <<progressContainer, resetTimer>>
dlVars == <<isDownloading, tasks, lastResult, downloadStatus, barVars>>
listVars == <<videoList, listEnsuring, listListing>>
clearVars == <<clears, lastClear>>

\* VideoManager playback
VARIABLES
    managerVideo,   \* VideoManager.currentVideo
    managerSrc,     \* videoSource.src
    managerMedia,   \* what the video element last did: empty, selecting, loadstart, canplay, error
    playbackStatus  \* text of #playback-status

managerVars == <<managerVideo, managerSrc, managerMedia, playbackStatus>>
libVars == <<now, storeVars, dlVars, notification, listVars, clearVars, deletes, managerVars>>

\* VideoPlayer
VARIABLES
    isLoading,          \* VideoPlayer.isLoading
    currentVideo,       \* VideoPlayer.currentVideo
    videoSrc,           \* videoPlayer.src and videoSource.src
    readyState,         \* videoPlayer.readyState
    loadPc,             \* where loadVideo is: idle, probing, racing
    loadUrl,            \* the url of the loadVideo call in flight
    loadStatus,         \* text of #download-status
    playerNotification, \* text of the last showNotification
    loadResult,         \* how the last loadVideo call ended
    race,               \* the closure of the latest readiness race
    stale,              \* closures of earlier races with something armed
    elapsed,            \* seconds since the latest race started
    userInitiatedPause, \* VideoPlayer.userInitiatedPause
    paused,             \* videoPlayer.paused
    playerPlayback,     \* text of #playback-status
    mediaEvents         \* events of the video element queued for dispatch

controlVars == <<paused, playerPlayback, mediaEvents>>
playerVars == <<isLoading, currentVideo, videoSrc, readyState, loadPc, loadUrl,
                loadStatus, playerNotification, loadResult, race, stale, elapsed,
                userInitiatedPause, controlVars>>
loadVars == <<isLoading, currentVideo, loadPc, loadStatus, playerNotification, loadResult,
              userInitiatedPause>>

vars == <<libVars, playerVars>>

names(files) == {files[i].name : i \in 1..Len(files)}

\* Storage Gateway resolve('videos/<name>') calls its success callback
resolves(name) == dirExists /\ name \in names(videos)

\* fileExists whose resolve callbacks both answer false
fileExistsNever(name) == IF resolves(name) THEN FALSE ELSE FALSE

\* fileExists(filePath): true from the success callback, false from the other
fileExists(name) == IF resolves(name) THEN TRUE ELSE FALSE

\* Storage Gateway createDirectory('videos'): what it may call back with
createDirectoryOutcomes ==
    IF dirExists THEN {"InvalidValuesError", "IOError"} ELSE {"created", "IOError"}

\* an ensureVideosDirectory that rejects when the directory is already there
ensureResolvesOnlyCreated(outcome) == outcome = "created"

\* an ensureVideosDirectory that resolves from every callback
ensureResolvesAlways(outcome) == outcome = outcome

\* ensureVideosDirectory() resolves: created, or the error says it exists
ensureResolves(outcome) == outcome = "created" \/ outcome = "InvalidValuesError"

\* a test of the extension that leaves out toLowerCase()
isVideoFileCaseSensitive(file) ==
    \E i \in 1..Len(supportedFormats) :
        endsWith(file.name, <<".", supportedFormats[i]>>)

\* file.name.toLowerCase().endsWith(`.${format}`) for some supported format
isVideoFile(file) ==
    \E i \in 1..Len(supportedFormats) :
        endsWith(toLowerCase(file.name), <<".", supportedFormats[i]>>)

RECURSIVE filter(_)
\* files.filter(file => supportedFormats.some(...))
filter(files) ==
    IF files = <<>> THEN <<>>
    ELSE IF isVideoFile(Head(files)) THEN <<Head(files)>> \o filter(Tail(files))
    ELSE filter(Tail(files))

RECURSIVE without(_, _)
\* videos/ after the file called name has been deleted
without(files, name) ==
    IF files = <<>> THEN <<>>
    ELSE IF Head(files).name = name THEN without(Tail(files), name)
    ELSE <<Head(files)>> \o without(Tail(files), name)

\* the promise of downloadWithProgress before it settles
NoTransfer == [state |-> "pending", reason |-> <<>>, code |-> 0, bytes |-> 0]

NoResult ==
    [url |-> <<>>, filename |-> <<>>, error |-> <<"none">>, sent |-> 0,
     status |-> 0, existed |-> FALSE, listed |-> FALSE, transfer |-> NoTransfer]
NoClear ==
    [total |-> 0, removed |-> 0, failed |-> 0, reported |-> "none",
     listing |-> <<>>, attempted |-> <<>>]

LoadingList == [msg |-> "Loading videos...", items |-> <<>>]

InitLibrary ==
    /\ now = 1
    /\ videos \in InitialListings
    /\ dirExists \in (IF videos = <<>> THEN BOOLEAN ELSE {TRUE})
    /\ isDownloading = FALSE
    /\ tasks = <<>>
    /\ lastResult = NoResult
    /\ downloadStatus = <<"">>
    /\ progressContainer = "none"
    /\ resetTimer = FALSE
    /\ notification = <<"Application initialized successfully">>
    /\ videoList = LoadingList
    /\ listEnsuring = 0
    /\ listListing = (IF dirExists THEN 1 ELSE 0)
    /\ clears = <<>>
    /\ lastClear = NoClear
    /\ deletes = <<>>
    /\ managerVideo = <<>>
    /\ managerSrc = <<>>
    /\ managerMedia = "empty"
    /\ playbackStatus = <<"">>

\* The clock advances.
Tick ==
    /\ now < MaxNow
    /\ now' = now + 1
    /\ UNCHANGED <<playerVars, managerVars, storeVars, dlVars, notification, listVars, clearVars, deletes>>

\* ---------------------------------------------------------------- download
\* handleDownload() without its isDownloading check
handleDownloadNoBusyCheck(url) ==
    IF url = <<>> THEN "Please enter a video URL"
    ELSE IF ~isValidUrl(url) THEN "Please enter a valid URL"
    ELSE IF ~isSupportedFormat(url) THEN "Unsupported video format"
    ELSE "downloadVideo"

\* handleDownload(): which of its branches a request takes
handleDownloadVerdict(url) ==
    IF url = <<>> THEN "Please enter a video URL"
    ELSE IF ~isValidUrl(url) THEN "Please enter a valid URL"
    ELSE IF ~isSupportedFormat(url) THEN "Unsupported video format"
    ELSE IF isDownloading THEN "Download already in progress"
    ELSE "downloadVideo"

\* downloadVideo(url) up to its first await, fileExists(filePath)
NewTask(url) ==
    [url |-> url, filename |-> generateFilename(url, now), pc |-> "checking",
     loaded |-> 0, computable |-> FALSE, sent |-> 0, existed |-> FALSE,
     transfer |-> NoTransfer, progress |-> 0]

HandleDownload(url) ==
    /\ IF handleDownloadVerdict(url) = "downloadVideo"
       THEN /\ Len(tasks) < MaxTasks
            /\ isDownloading' = TRUE
            /\ tasks' = Append(tasks, NewTask(url))
            /\ downloadStatus' = <<"Starting download...">>
            /\ progressContainer' = "flex"
            /\ UNCHANGED <<lastResult, notification, resetTimer>>
       ELSE /\ notification' = <<handleDownloadVerdict(url)>>
            /\ UNCHANGED dlVars
    /\ UNCHANGED <<playerVars, managerVars, now, storeVars, listVars, clearVars, deletes>>

\* the timer of downloadVideo's finally block fires: the indicator is hidden
\* (its fill and text, set back to 0%, are not followed; of the timers armed
\* at one time the model follows one)
ResetFires ==
    /\ resetTimer
    /\ resetTimer' = FALSE
    /\ progressContainer' = "none"
    /\ UNCHANGED <<playerVars, managerVars, now, storeVars, isDownloading, tasks,
                   lastResult, downloadStatus, notification, listVars, clearVars,
                   deletes>>

\* a downloadVideo without its finally block
downloadFailsKeepsSlot(i, task, message, status) ==
    /\ downloadStatus' = <<"Download failed: ">> \o message
    /\ UNCHANGED <<isDownloading, barVars>>
    /\ tasks' = RemoveAt(tasks, i)
    /\ lastResult' = [url |-> task.url, filename |-> task.filename,
                      error |-> message, sent |-> task.sent, status |-> status,
                      existed |-> task.existed, listed |-> FALSE,
                      transfer |-> task.transfer]
    /\ notification' = <<"Download failed: ">> \o message

\* downloadVideo's catch and finally, then handleDownload's catch
downloadFails(i, task, message, status) ==
    /\ downloadStatus' = <<"Download failed: ">> \o message
    /\ isDownloading' = FALSE
    /\ resetTimer' = TRUE
    /\ UNCHANGED progressContainer
    /\ tasks' = RemoveAt(tasks, i)
    /\ lastResult' = [url |-> task.url, filename |-> task.filename,
                      error |-> message, sent |-> task.sent, status |-> status,
                      existed |-> task.existed, listed |-> FALSE,
                      transfer |-> task.transfer]
    /\ notification' = <<"Download failed: ">> \o message

\* the fileExists(filePath) promise settles
FileExistsCallback(i) ==
    /\ tasks[i].pc = "checking"
    /\ LET task == [tasks[i] EXCEPT !.existed = resolves(tasks[i].filename)]
       IN  IF fileExists(task.filename)
           THEN downloadFails(i, task, <<"Video already exists in library">>, 0)
           ELSE /\ tasks' = [tasks EXCEPT ![i] = [task EXCEPT !.pc = "ensuring"]]
                /\ UNCHANGED <<isDownloading, lastResult, downloadStatus, notification, barVars>>
    /\ UNCHANGED <<playerVars, managerVars, now, storeVars, listVars, clearVars, deletes>>

\* the ensureVideosDirectory() promise settles; on success xhr.send()
DownloadEnsureDir(i, outcome, computable) ==
    /\ tasks[i].pc = "ensuring"
    /\ outcome \in createDirectoryOutcomes
    /\ IF ensureResolves(outcome)
       THEN /\ dirExists' = TRUE
            /\ tasks' = [tasks EXCEPT ![i].pc = "transferring",
                                      ![i].sent = @ + 1,
                                      ![i].computable = computable]
            /\ UNCHANGED <<isDownloading, lastResult, downloadStatus, notification, barVars>>
       ELSE /\ downloadFails(i, tasks[i], <<"Failed to create videos directory">>, 0)
            /\ UNCHANGED dirExists
    /\ UNCHANGED <<playerVars, managerVars, now, videos, listVars, clearVars, deletes>>

\* a progress that reports the share still to come
percentageRemaining(loaded, total) == (200 * (total - loaded) + total) \div (2 * total)

\* Math.round((loaded / total) * 100)
percentage(loaded, total) == (200 * loaded + total) \div (2 * total)

\* an onprogress that forwards every event
lengthComputableAlways(task) == task.computable = task.computable

\* event.lengthComputable of the progress events of a transfer
lengthComputable(task) == task.computable

\* xhr.onprogress, and the onProgress callback of downloadVideo
XhrProgress(i) ==
    /\ tasks[i].pc = "transferring"
    /\ tasks[i].loaded < ContentLength
    /\ tasks' = [tasks EXCEPT
                    ![i].loaded = @ + 1,
                    ![i].progress = IF lengthComputable(tasks[i])
                                    THEN percentage(tasks[i].loaded + 1, ContentLength)
                                    ELSE @]
    /\ downloadStatus' =
          IF lengthComputable(tasks[i])
          THEN <<"Downloading... ",
                 ToString(percentage(tasks[i].loaded + 1, ContentLength)), "%">>
          ELSE downloadStatus
    /\ UNCHANGED <<playerVars, managerVars, now, storeVars, isDownloading, lastResult, notification, barVars,
                   listVars, clearVars, deletes>>

\* `HTTP ${status}: ${statusText}`
httpMessage(xhr) == <<"HTTP ", ToString(xhr.status), ": ", xhr.statusText>>

statusText(status) ==
    CASE status = 200 -> "OK" [] status = 204 -> "No Content"
      [] status = 404 -> "Not Found" [] OTHER -> ""

\* what xhr.onload finds: an XMLHttpRequest has status, statusText and response
XMLHttpRequest(status) ==
    [status |-> status, statusText |-> statusText(status), response |-> ContentLength]

\* the XMLHttpRequest of a GET of url that the server answered with status
send(url, status) == [XMLHttpRequest(status) EXCEPT !.response = contentLength(url)]

\* a response.ok that is computed from the status
responseOkFromStatus(response) == response.status \in 200..299

\* response.ok, of the value downloadWithProgress resolved with
responseOk(response) ==
    IF "ok" \in DOMAIN response THEN response.ok ELSE FALSE

\* xhr.onload: resolve(xhr) when the status is 200, reject otherwise
onload(xhr) ==
    IF xhr.status = 200
    THEN [state |-> "fulfilled", reason |-> <<>>, code |-> xhr.status,
          bytes |-> xhr.response]
    ELSE [state |-> "rejected", reason |-> httpMessage(xhr), code |-> xhr.status,
          bytes |-> 0]

\* an xhr.onerror that resolves with the request
onerrorResolves ==
    [state |-> "fulfilled", reason |-> <<>>, code |-> 0, bytes |-> 0]

\* xhr.onerror
onerror ==
    [state |-> "rejected", reason |-> <<"Network error occurred">>, code |-> 0,
     bytes |-> 0]

\* xhr.ontimeout
ontimeout ==
    [state |-> "rejected", reason |-> <<"Download timeout">>, code |-> 0,
     bytes |-> 0]

\* saveVideoToStorage(response, filePath) with every callback a success: the
\* content is written to a new file of videos/
saveVideoToStorage(bytes, filename) ==
    Append(videos, [name |-> filename, size |-> bytes])

\* Storage Gateway createFile(filePath): a new, empty file of videos/
createFile(filename) == Append(videos, [name |-> filename, size |-> 0])

\* how saveVideoToStorage can end: the stream written and closed, or the error
\* callback of the FileReader, of createFile or of openStream
SaveOutcomes == {"written", "reader", "createFile", "openStream"}

\* the Error saveVideoToStorage rejects with
saveError(answer) ==
    CASE answer = "reader" -> <<"Failed to read video data">>
      [] answer = "createFile" -> <<"Failed to create file: ", "IOError">>
      [] answer = "openStream" -> <<"Failed to write file: ", "IOError">>

\* downloadVideo once the promise of downloadWithProgress has settled with
\* result: the throw of a rejection, else the response.ok test, else on to
\* saveVideoToStorage
afterTransfer(i, result) ==
    LET task == [tasks[i] EXCEPT !.transfer = result]
        response == XMLHttpRequest(result.code)
    IN  IF result.state = "rejected"
        THEN downloadFails(i, task, result.reason, result.code) /\ UNCHANGED videos
        ELSE IF ~responseOk(response)
        THEN downloadFails(i, task, httpMessage(response), result.code)
             /\ UNCHANGED videos
        ELSE \E answer \in SaveOutcomes :
               IF answer = "written"
               THEN /\ tasks' = [tasks EXCEPT ![i] = [task EXCEPT !.pc = "saved"]]
                    /\ videos' = saveVideoToStorage(result.bytes, task.filename)
                    /\ UNCHANGED <<isDownloading, lastResult, downloadStatus,
                                   notification, barVars>>
               ELSE /\ downloadFails(i, task, saveError(answer), result.code)
                    /\ videos' = IF answer = "openStream"
                                 THEN createFile(task.filename) ELSE videos

\* xhr.onload, then the rest of downloadVideo up to its next await
XhrLoad(i, status) ==
    /\ tasks[i].pc = "transferring"
    /\ status \in HttpStatuses
    /\ afterTransfer(i, onload(send(tasks[i].url, status)))
    /\ UNCHANGED <<playerVars, managerVars, now, dirExists, listVars, clearVars, deletes>>

\* xhr.onerror, then the rest of downloadVideo up to its next await
XhrError(i) ==
    /\ tasks[i].pc = "transferring"
    /\ afterTransfer(i, onerror)
    /\ UNCHANGED <<playerVars, managerVars, now, dirExists, listVars, clearVars, deletes>>

\* xhr.ontimeout, then the rest of downloadVideo up to its next await
XhrTimeout(i) ==
    /\ tasks[i].pc = "transferring"
    /\ afterTransfer(i, ontimeout)
    /\ UNCHANGED <<playerVars, managerVars, now, dirExists, listVars, clearVars, deletes>>

\* ----------------------------------------------------------------- library
\* a list built with the last file of the listing first
listedNewestFirst(files) ==
    IF filter(files) = <<>>
    THEN [msg |-> "No videos downloaded yet", items |-> <<>>]
    ELSE [msg |-> "",
          items |-> [k \in 1..Len(filter(files)) |->
                        filter(files)[Len(filter(files)) + 1 - k]]]

\* what the listFiles success callback of loadVideoLibrary puts in #video-list
listed(files) ==
    IF filter(files) = <<>>
    THEN [msg |-> "No videos downloaded yet", items |-> <<>>]
    ELSE [msg |-> "", items |-> filter(files)]

\* loadVideoLibrary() up to its await of ensureVideosDirectory() (refresh button)
LoadVideoLibrary ==
    /\ listEnsuring + listListing < MaxListings
    /\ videoList' = LoadingList
    /\ listEnsuring' = listEnsuring + 1
    /\ UNCHANGED <<playerVars, managerVars, now, storeVars, dlVars, notification, listListing, clearVars, deletes>>

\* ensureVideosDirectory() settles in loadVideoLibrary; on success listFiles
ListEnsureDir(outcome) ==
    /\ listEnsuring > 0
    /\ outcome \in createDirectoryOutcomes
    /\ listEnsuring' = listEnsuring - 1
    /\ IF ensureResolves(outcome)
       THEN /\ dirExists' = TRUE
            /\ listListing' = listListing + 1
            /\ UNCHANGED notification
       ELSE /\ notification' = <<"Failed to load library: ",
                                 "Failed to create videos directory">>
            /\ UNCHANGED <<dirExists, listListing>>
    /\ UNCHANGED <<playerVars, managerVars, now, videos, dlVars, videoList, clearVars, deletes>>

\* the listFiles callbacks of loadVideoLibrary
ListFilesCallback(ok) ==
    /\ listListing > 0
    /\ ok => dirExists
    /\ listListing' = listListing - 1
    /\ videoList' = IF ok THEN listed(videos)
                    ELSE [msg |-> "Failed to load videos", items |-> <<>>]
    /\ lastResult' = IF ok /\ lastResult.error # <<"none">>
                     THEN [lastResult EXCEPT !.listed = TRUE]
                     ELSE lastResult
    /\ UNCHANGED <<playerVars, managerVars, now, storeVars, isDownloading, tasks, downloadStatus,
                   barVars, notification, listEnsuring, clearVars, deletes>>

\* --------------------------------------------------------------- clear all
\* clearAllVideos(), confirmed, up to the listFiles call
ClearAllVideos ==
    /\ Len(clears) < MaxClears
    /\ clears' = Append(clears, [pc |-> "listing", videoFiles |-> <<>>,
                                 deletedCount |-> 0, removed |-> 0, failed |-> 0,
                                 attempted |-> <<>>])
    /\ UNCHANGED <<playerVars, managerVars, now, storeVars, dlVars, notification, listVars, lastClear, deletes>>

\* the listFiles callbacks of clearAllVideos; with files, the first deleteNext()
ClearListCallback(c, ok) ==
    /\ clears[c].pc = "listing"
    /\ ok => dirExists
    /\ IF ~ok
       THEN /\ notification' = <<"Failed to clear videos">>
            /\ clears' = RemoveAt(clears, c)
       ELSE IF filter(videos) = <<>>
       THEN /\ notification' = <<"No videos to delete">>
            /\ clears' = RemoveAt(clears, c)
       ELSE /\ clears' = [clears EXCEPT ![c].pc = "deleting",
                                        ![c].videoFiles = filter(videos)]
            /\ UNCHANGED notification
    /\ UNCHANGED <<playerVars, managerVars, now, storeVars, dlVars, listVars, lastClear, deletes>>

\* a deleteNext whose error callback does not count the entry
countOnlyDeleted(deletedCount, ok) == IF ok THEN deletedCount + 1 ELSE deletedCount

\* deletedCount++, in the success and in the error callback of deleteFile
countAttempt(deletedCount, ok) == deletedCount + 1

\* the names of files, in their order
nameList(files) == [k \in 1..Len(files) |-> files[k].name]

\* a deleteFile callback of clearAllVideos, then deleteNext()
ClearDeleteCallback(c, ok) ==
    /\ clears[c].pc = "deleting"
    /\ LET clear == clears[c]
           file == clear.videoFiles[clear.deletedCount + 1]
           totalVideos == Len(clear.videoFiles)
           deletedCount == countAttempt(clear.deletedCount, ok)
           attempted == Append(clear.attempted, file.name)
           removed == clear.removed + (IF ok THEN 1 ELSE 0)
           failed == clear.failed + (IF ok THEN 0 ELSE 1)
       IN  /\ ok => resolves(file.name)
           /\ videos' = IF ok THEN without(videos, file.name) ELSE videos
           /\ IF deletedCount >= totalVideos
              THEN /\ listEnsuring + listListing < MaxListings
                   /\ notification' = <<"Deleted ", ToString(totalVideos), " videos">>
                   /\ lastClear' = [total |-> totalVideos, removed |-> removed,
                                    failed |-> failed,
                                    reported |-> ToString(totalVideos),
                                    listing |-> nameList(clear.videoFiles),
                                    attempted |-> attempted]
                   /\ clears' = RemoveAt(clears, c)
                   /\ videoList' = LoadingList
                   /\ listEnsuring' = listEnsuring + 1
                   /\ UNCHANGED listListing
              ELSE /\ clears' = [clears EXCEPT ![c].deletedCount = deletedCount,
                                               ![c].removed = removed,
                                               ![c].failed = failed,
                                               ![c].attempted = attempted]
                   /\ UNCHANGED <<notification, lastClear, listVars>>
    /\ UNCHANGED <<playerVars, managerVars, now, dirExists, dlVars, deletes>>

\* ------------------------------------------------------------------ delete
\* deleteVideo(filePath, fileName), confirmed, of an entry #video-list shows
DeleteVideo(k) ==
    /\ Len(deletes) < MaxDeletes
    /\ k \in 1..Len(videoList.items)
    /\ deletes' = Append(deletes, [name |-> videoList.items[k].name, pc |-> "resolving"])
    /\ UNCHANGED <<playerVars, managerVars, now, storeVars, dlVars, notification, listVars, clearVars>>

\* a deleteVideo that shows the success notification from every callback
deleteNotificationAlwaysSuccess(found, ok) == <<"Video deleted successfully">>

\* what deleteVideo shows: from the error callback of resolve, and from the
\* success and the error callback of deleteFile
deleteNotification(found, ok) ==
    IF ~found THEN <<"Video not found">>
    ELSE IF ok THEN <<"Video deleted successfully">>
    ELSE <<"Failed to delete video">>

\* the resolve callbacks of deleteVideo
DeleteResolveCallback(d) ==
    /\ deletes[d].pc = "resolving"
    /\ IF resolves(deletes[d].name)
       THEN /\ deletes' = [deletes EXCEPT ![d].pc = "deleting"]
            /\ UNCHANGED notification
       ELSE /\ deletes' = RemoveAt(deletes, d)
            /\ notification' = deleteNotification(FALSE, FALSE)
    /\ UNCHANGED <<playerVars, managerVars, now, storeVars, dlVars, listVars, clearVars>>

\* a deleteVideo that leaves the list as it is
refreshesNever(ok) == FALSE

\* the deleteFile callback of deleteVideo that calls loadVideoLibrary(): the
\* success callback
refreshes(ok) == ok

\* the deleteFile callbacks of deleteVideo; on success loadVideoLibrary()
DeleteFileCallback(d, ok) ==
    /\ deletes[d].pc = "deleting"
    /\ ok => resolves(deletes[d].name)
    /\ deletes' = RemoveAt(deletes, d)
    /\ videos' = IF ok THEN without(videos, deletes[d].name) ELSE videos
    /\ notification' = deleteNotification(TRUE, ok)
    /\ IF refreshes(ok)
       THEN /\ listEnsuring + listListing < MaxListings
            /\ videoList' = LoadingList
            /\ listEnsuring' = listEnsuring + 1
            /\ UNCHANGED listListing
       ELSE UNCHANGED listVars
    /\ UNCHANGED <<playerVars, managerVars, now, dirExists, dlVars, clearVars>>

DownloadStep ==
    \/ \E url \in Urls : HandleDownload(url)
    \/ \E i \in 1..Len(tasks) : FileExistsCallback(i)
    \/ \E i \in 1..Len(tasks), outcome \in {"created", "InvalidValuesError", "IOError"},
          computable \in BOOLEAN : DownloadEnsureDir(i, outcome, computable)
    \/ \E i \in 1..Len(tasks) : XhrProgress(i)
    \/ \E i \in 1..Len(tasks), status \in HttpStatuses : XhrLoad(i, status)
    \/ \E i \in 1..Len(tasks) : XhrError(i)
    \/ \E i \in 1..Len(tasks) : XhrTimeout(i)

ListingStep ==
    \/ LoadVideoLibrary
    \/ \E outcome \in {"created", "InvalidValuesError", "IOError"} : ListEnsureDir(outcome)
    \/ \E ok \in BOOLEAN : ListFilesCallback(ok)

ClearStep ==
    \/ ClearAllVideos
    \/ \E c \in 1..Len(clears), ok \in BOOLEAN : ClearListCallback(c, ok)
    \/ \E c \in 1..Len(clears), ok \in BOOLEAN : ClearDeleteCallback(c, ok)

DeleteStep ==
    \/ \E k \in 1..Len(videoList.items) : DeleteVideo(k)
    \/ \E d \in 1..Len(deletes) : DeleteResolveCallback(d)
    \/ \E d \in 1..Len(deletes), ok \in BOOLEAN : DeleteFileCallback(d, ok)

\* ------------------------------------------------------- library playback
\* file.fullPath of an entry of videos/
fullPath(name) == <<"documents", "/", "videos", "/">> \o name

\* playVideoFromLibrary(file.fullPath): a click on entry k of #video-list
PlayVideoFromLibrary(k) ==
    /\ k \in 1..Len(videoList.items)
    /\ LET filePath == fullPath(videoList.items[k].name)
           fileUrl == <<"file://">> \o filePath
       IN /\ managerSrc' = fileUrl
          /\ managerMedia' = "selecting"
          /\ managerVideo' = filePath
    /\ playbackStatus' = <<"Loading video from library...">>
    /\ notification' = <<"Video loaded from library">>
    /\ UNCHANGED <<playerVars, now, storeVars, dlVars, listVars, clearVars, deletes>>

\* the 'loadstart' listener of the video element
ManagerLoadStart ==
    /\ managerMedia = "selecting"
    /\ managerMedia' = "loadstart"
    /\ playbackStatus' = <<"Loading video...">>
    /\ UNCHANGED <<playerVars, now, storeVars, dlVars, notification, listVars, clearVars,
                   deletes, managerVideo, managerSrc>>

\* the 'canplay' listener of the video element
ManagerCanPlay ==
    /\ managerMedia = "loadstart"
    /\ managerMedia' = "canplay"
    /\ playbackStatus' = <<"Ready to play">>
    /\ UNCHANGED <<playerVars, now, storeVars, dlVars, notification, listVars, clearVars,
                   deletes, managerVideo, managerSrc>>

\* video.error.code as handleVideoError reads it; 0 stands for no video.error
MediaErrorCodes == 0..4

\* the switch of handleVideoError
errorMessage(code) ==
    CASE code = 1 -> <<"Video playback was aborted">>
      [] code = 2 -> <<"Network error occurred">>
      [] code = 3 -> <<"Video format not supported">>
      [] code = 4 -> <<"Video source not supported">>
      [] OTHER -> <<"Unknown video error">>

\* handleVideoError(event): the 'error' listener of the video element
HandleVideoError(code) ==
    /\ managerMedia = "loadstart"
    /\ code \in MediaErrorCodes
    /\ managerMedia' = "error"
    /\ playbackStatus' = errorMessage(code)
    /\ notification' = errorMessage(code)
    /\ UNCHANGED <<playerVars, now, storeVars, dlVars, listVars, clearVars,
                   deletes, managerVideo, managerSrc>>

\* playVideo(): videoPlayer.src is never assigned, only videoSource.src
PlayVideo ==
    /\ notification' = <<"No video loaded">>
    /\ UNCHANGED <<playerVars, now, storeVars, dlVars, listVars, clearVars,
                   deletes, managerVars>>

\* pauseVideo()
PauseVideo ==
    /\ playbackStatus' = <<"Paused">>
    /\ UNCHANGED <<playerVars, now, storeVars, dlVars, notification, listVars, clearVars,
                   deletes, managerVideo, managerSrc, managerMedia>>

\* stopVideo()
StopVideo ==
    /\ playbackStatus' = <<"Stopped">>
    /\ UNCHANGED <<playerVars, now, storeVars, dlVars, notification, listVars, clearVars,
                   deletes, managerVideo, managerSrc, managerMedia>>

PlaybackStep ==
    \/ \E k \in 1..Len(videoList.items) : PlayVideoFromLibrary(k)
    \/ ManagerLoadStart
    \/ ManagerCanPlay
    \/ \E code \in MediaErrorCodes : HandleVideoError(code)
    \/ PlayVideo
    \/ PauseVideo
    \/ StopVideo


\* ------------------------------------------------------------ VideoPlayer
\* setTimeout(..., 15000): the deadline of the readiness race, in seconds
Deadline == 15
\* setTimeout(..., 1000): the one-shot check
FirstCheck == 1
\* setInterval(..., 2000): the periodic check
PollPeriod == 2
\* videoPlayer.readyState >= 2 in the one-shot check
HaveCurrentData == 2
\* videoPlayer.readyState >= 1 in the periodic check
HaveMetadata == 1
\* videoPlayer.readyState >= 3 in playVideo
HaveFutureData == 3
\* the highest readyState, HAVE_ENOUGH_DATA
HaveEnoughData == HaveFutureData + 1
\* Closures of finished races, with a listener or a timer still armed, the
\* model has room for.
MaxStale == 2

\* The clock of a race stops counting here.
ElapsedCap == Deadline + PollPeriod + 1

PlayerUrls == {UrlClip, UrlNoExt, UrlBad, UrlEmpty}
SuccessSignals == {"canplay", "canplaythrough", "loadeddata"}
Signals == SuccessSignals \cup {"error"}


\* A closure of the promise executor in loadVideo.  Timers hold the seconds
\* left, -1 when not armed.  first, firstRacing, sawLevel and at record what
\* happened to the race; no handler reads them.
NoRace ==
    [resolved |-> TRUE, promise |-> "none", calls |-> 0, by |-> "none",
     timeout |-> -1, listeners |-> FALSE, oneShot |-> -1, interval |-> -1,
     first |-> "none", firstRacing |-> FALSE, sawLevel |-> FALSE, at |-> 0]

\* the promise executor: resolved = false, the timers and the listeners armed
NewRace ==
    [resolved |-> FALSE, promise |-> "pending", calls |-> 0, by |-> "none",
     timeout |-> Deadline, listeners |-> TRUE, oneShot |-> FirstCheck,
     interval |-> PollPeriod,
     first |-> "none", firstRacing |-> FALSE, sawLevel |-> FALSE, at |-> 0]

armed(c) == c.listeners \/ c.timeout >= 0 \/ c.oneShot >= 0 \/ c.interval >= 0

\* what is left of a closure once a later race has started
Archive(c) ==
    [c EXCEPT !.promise = "none", !.calls = 0, !.by = "none", !.first = "none",
              !.firstRacing = FALSE, !.sawLevel = FALSE, !.at = 0]

\* ReadinessOutcome of a closure: rejected is Failed, resolved by the deadline
\* is TimedOut, resolved by anything else is Ready
outcome(c) ==
    CASE c.promise = "pending" -> "Racing"
      [] c.promise = "rejected" -> "Failed"
      [] c.promise = "fulfilled" /\ c.by = "timeout" -> "TimedOut"
      [] c.promise = "fulfilled" /\ c.by # "timeout" -> "Ready"
      [] OTHER -> "None"

\* cleanup()
cleanup(c) == [c EXCEPT !.timeout = -1, !.listeners = FALSE]

\* resolve() or reject(): only the first call settles the promise
settle(c, state, by) ==
    [c EXCEPT !.calls = @ + 1,
              !.promise = IF @ = "pending" THEN state ELSE @,
              !.by = IF c.promise = "pending" THEN by ELSE @]

\* a deadline callback that only logs
onTimeoutForgets(c) == [c EXCEPT !.timeout = -1]

\* a deadline callback that rejects
onTimeoutRejects(c) ==
    IF ~c.resolved
    THEN settle([c EXCEPT !.resolved = TRUE, !.timeout = -1], "rejected", "timeout")
    ELSE [c EXCEPT !.timeout = -1]

\* the setTimeout(..., 15000) callback
onTimeout(c) ==
    IF ~c.resolved
    THEN settle([c EXCEPT !.resolved = TRUE, !.timeout = -1], "fulfilled", "timeout")
    ELSE [c EXCEPT !.timeout = -1]

\* onCanPlay, onCanPlayThrough, onLoadedData
onSuccess(c, e) ==
    IF ~c.resolved
    THEN settle(cleanup([c EXCEPT !.resolved = TRUE]), "fulfilled", e)
    ELSE c

\* onError
onError(c) ==
    IF ~c.resolved
    THEN settle(cleanup([c EXCEPT !.resolved = TRUE]), "rejected", "error")
    ELSE c

\* a one-shot check without its !resolved test
onCheckUnguarded(c, level) ==
    IF level >= HaveCurrentData
    THEN settle(cleanup([c EXCEPT !.resolved = TRUE, !.oneShot = -1]),
                "fulfilled", "check")
    ELSE [c EXCEPT !.oneShot = -1]

\* the setTimeout(..., 1000) callback
onCheck(c, level) ==
    IF ~c.resolved /\ level >= HaveCurrentData
    THEN settle(cleanup([c EXCEPT !.resolved = TRUE, !.oneShot = -1]),
                "fulfilled", "check")
    ELSE [c EXCEPT !.oneShot = -1]

\* a periodic check that asks for HAVE_CURRENT_DATA
onIntervalNeedsCurrentData(c, level) ==
    IF ~c.resolved
    THEN IF level >= HaveCurrentData
         THEN settle(cleanup([c EXCEPT !.resolved = TRUE, !.interval = -1]),
                     "fulfilled", "interval")
         ELSE [c EXCEPT !.interval = PollPeriod]
    ELSE [c EXCEPT !.interval = -1]

\* a periodic check without its !resolved test
onIntervalUnguarded(c, level) ==
    IF level >= HaveMetadata
    THEN settle(cleanup([c EXCEPT !.resolved = TRUE, !.interval = -1]),
                "fulfilled", "interval")
    ELSE [c EXCEPT !.interval = PollPeriod]

\* the setInterval(..., 2000) callback
onInterval(c, level) ==
    IF ~c.resolved
    THEN IF level >= HaveMetadata
         THEN settle(cleanup([c EXCEPT !.resolved = TRUE, !.interval = -1]),
                     "fulfilled", "interval")
         ELSE [c EXCEPT !.interval = PollPeriod]
    ELSE [c EXCEPT !.interval = -1]

\* the platform dispatches event e to the listeners of closure c
deliver(c, e) ==
    IF ~c.listeners THEN c
    ELSE IF e = "error" THEN onError(c)
    ELSE onSuccess(c, e)

\* the record of a race: when its promise settled
stamp(old, new) ==
    IF old.promise = "pending" /\ new.promise # "pending"
    THEN [new EXCEPT !.at = elapsed]
    ELSE new

\* handleLoadVideo() without its isLoading check
handleLoadVideoNoBusyCheck(url) ==
    IF url = <<>> THEN "Please enter a video URL"
    ELSE IF ~isValidUrl(url) THEN "Please enter a valid URL"
    ELSE "loadVideo"

\* handleLoadVideo(): which of its branches a request takes
handleLoadVideoVerdict(url) ==
    IF url = <<>> THEN "Please enter a video URL"
    ELSE IF ~isValidUrl(url) THEN "Please enter a valid URL"
    ELSE IF isLoading THEN "Video loading already in progress"
    ELSE "loadVideo"

InitPlayer ==
    /\ isLoading = FALSE
    /\ currentVideo = <<>>
    /\ videoSrc = <<>>
    /\ readyState = 0
    /\ loadPc = "idle"
    /\ loadUrl = <<>>
    /\ loadStatus = ""
    /\ playerNotification = "Application initialized successfully"
    /\ loadResult = "none"
    /\ race = NoRace
    /\ stale = {}
    /\ elapsed = 0
    /\ userInitiatedPause = FALSE
    /\ paused = TRUE
    /\ playerPlayback = ""
    /\ mediaEvents = <<>>

\* handleLoadVideo(), and loadVideo(url) up to its await of the HEAD probe
HandleLoadVideo(url) ==
    /\ IF handleLoadVideoVerdict(url) = "loadVideo"
       THEN /\ Cardinality(stale \cup (IF armed(race) THEN {Archive(race)} ELSE {}))
                 <= MaxStale
            /\ isLoading' = TRUE
            /\ loadPc' = "probing"
            /\ loadUrl' = url
            /\ loadStatus' = "Loading video..."
            /\ playerNotification' = "Loading video..."
            /\ UNCHANGED <<currentVideo, loadResult>>
       ELSE /\ playerNotification' = handleLoadVideoVerdict(url)
            /\ UNCHANGED <<isLoading, loadPc, loadUrl, loadStatus, currentVideo,
                           loadResult>>
    /\ UNCHANGED <<videoSrc, readyState, race, stale, elapsed, userInitiatedPause,
                   controlVars, libVars>>

\* the HEAD probe answers or fails (either way loadVideo goes on): the source
\* is assigned, load() called and the readiness race started
ProbeSettles ==
    /\ loadPc = "probing"
    /\ loadPc' = "racing"
    /\ videoSrc' = loadUrl
    /\ readyState' = 0
    /\ stale' = stale \cup (IF armed(race) THEN {Archive(race)} ELSE {})
    /\ race' = NewRace
    /\ elapsed' = 0
    /\ paused' = TRUE
    /\ mediaEvents' = <<>>
    /\ UNCHANGED <<isLoading, currentVideo, loadUrl, loadStatus, playerNotification,
                   loadResult, userInitiatedPause, playerPlayback, libVars>>

\* a loadVideo whose finally block is skipped when the race was rejected
continuationFailedKeepsBusy(old, new) ==
    IF old.promise = "pending" /\ new.promise = "fulfilled"
    THEN /\ currentVideo' = loadUrl
         /\ loadStatus' = "Video loaded"
         /\ playerNotification' = "Video loaded"
         /\ loadResult' = "returned"
         /\ isLoading' = FALSE
         /\ loadPc' = "idle"
         /\ userInitiatedPause' = FALSE
    ELSE IF old.promise = "pending" /\ new.promise = "rejected"
    THEN /\ loadStatus' = "Load failed: Video load error"
         /\ playerNotification' = "Failed to load video: Video load error"
         /\ loadResult' = "threw"
         /\ loadPc' = "idle"
         /\ UNCHANGED <<currentVideo, isLoading, userInitiatedPause>>
    ELSE UNCHANGED loadVars

\* a loadVideo that raises 'timeout' when the deadline settled the race
continuationTimeoutThrows(old, new) ==
    IF old.promise = "pending" /\ new.promise = "fulfilled" /\ new.by # "timeout"
    THEN /\ currentVideo' = loadUrl
         /\ loadStatus' = "Video loaded"
         /\ playerNotification' = "Video loaded"
         /\ loadResult' = "returned"
         /\ isLoading' = FALSE
         /\ loadPc' = "idle"
         /\ userInitiatedPause' = FALSE
    ELSE IF old.promise = "pending" /\ new.promise # "pending"
    THEN /\ loadStatus' = "Load failed: timeout"
         /\ playerNotification' = "Failed to load video: timeout"
         /\ loadResult' = "threw"
         /\ isLoading' = FALSE
         /\ loadPc' = "idle"
         /\ UNCHANGED <<currentVideo, userInitiatedPause>>
    ELSE UNCHANGED loadVars

\* loadVideo after its await of the race: the rest of the try block, or the
\* catch block and the catch of handleLoadVideo; then the finally block
continuation(old, new) ==
    IF old.promise = "pending" /\ new.promise = "fulfilled"
    THEN /\ currentVideo' = loadUrl
         /\ loadStatus' = "Video loaded"
         /\ playerNotification' = "Video loaded"
         /\ loadResult' = "returned"
         /\ isLoading' = FALSE
         /\ loadPc' = "idle"
         /\ userInitiatedPause' = FALSE
    ELSE IF old.promise = "pending" /\ new.promise = "rejected"
    THEN /\ loadStatus' = "Load failed: Video load error"
         /\ playerNotification' = "Failed to load video: Video load error"
         /\ loadResult' = "threw"
         /\ isLoading' = FALSE
         /\ loadPc' = "idle"
         /\ UNCHANGED <<currentVideo, userInitiatedPause>>
    ELSE UNCHANGED loadVars

\* the player fires canplay, canplaythrough, loadeddata or error
FireEvent(e) ==
    /\ videoSrc # <<>>
    /\ LET new == deliver(race, e)
       IN  /\ race' = [stamp(race, new) EXCEPT
                          !.first = IF race.first = "none" THEN e ELSE @,
                          !.firstRacing = IF race.first = "none"
                                          THEN race.promise = "pending" ELSE @]
           /\ continuation(race, new)
    /\ stale' = {deliver(s, e) : s \in stale}
    /\ UNCHANGED <<videoSrc, readyState, loadUrl, elapsed, controlVars, libVars>>

\* the player's readiness level rises
ReadyStateRises(level) ==
    /\ videoSrc # <<>>
    /\ level > readyState
    /\ readyState' = level
    /\ UNCHANGED <<loadVars, videoSrc, loadUrl, race, stale, elapsed, controlVars, libVars>>

\* the deadline timer of the latest race fires
RaceTimeout ==
    /\ race.timeout = 0
    /\ race' = stamp(race, onTimeout(race))
    /\ continuation(race, onTimeout(race))
    /\ UNCHANGED <<videoSrc, readyState, loadUrl, stale, elapsed, controlVars, libVars>>

\* the one-shot check of the latest race fires
RaceCheck ==
    /\ race.oneShot = 0
    /\ race' = [stamp(race, onCheck(race, readyState)) EXCEPT
                   !.sawLevel = @ \/ (race.promise = "pending"
                                      /\ readyState >= HaveCurrentData)]
    /\ continuation(race, onCheck(race, readyState))
    /\ UNCHANGED <<videoSrc, readyState, loadUrl, stale, elapsed, controlVars, libVars>>

\* the periodic check of the latest race fires
RaceInterval ==
    /\ race.interval = 0
    /\ race' = [stamp(race, onInterval(race, readyState)) EXCEPT
                   !.sawLevel = @ \/ (race.promise = "pending"
                                      /\ readyState >= HaveMetadata)]
    /\ continuation(race, onInterval(race, readyState))
    /\ UNCHANGED <<videoSrc, readyState, loadUrl, stale, elapsed, controlVars, libVars>>

\* a timer of an earlier race fires
staleTimer(s, which) ==
    CASE which = "timeout" -> onTimeout(s)
      [] which = "check" -> onCheck(s, readyState)
      [] OTHER -> onInterval(s, readyState)

StaleTimer(s, which) ==
    /\ s \in stale
    /\ \/ which = "timeout" /\ s.timeout = 0
       \/ which = "check" /\ s.oneShot = 0
       \/ which = "interval" /\ s.interval = 0
    /\ stale' = {c \in (stale \ {s}) \cup {staleTimer(s, which)} : armed(c)}
    /\ UNCHANGED <<loadVars, videoSrc, readyState, loadUrl, race, elapsed, controlVars, libVars>>

\* a second passes
aged(c) ==
    [c EXCEPT !.timeout = IF @ > 0 THEN @ - 1 ELSE @,
              !.oneShot = IF @ > 0 THEN @ - 1 ELSE @,
              !.interval = IF @ > 0 THEN @ - 1 ELSE @]

TickPlayer ==
    /\ \A c \in {race} \cup stale : c.timeout # 0 /\ c.oneShot # 0 /\ c.interval # 0
    /\ \/ \E c \in {race} \cup stale : c.timeout > 0 \/ c.oneShot > 0 \/ c.interval > 0
       \/ race.promise # "none" /\ elapsed < ElapsedCap
    /\ race' = aged(race)
    /\ stale' = {aged(s) : s \in stale}
    /\ elapsed' = IF elapsed < ElapsedCap THEN elapsed + 1 ELSE elapsed
    /\ UNCHANGED <<loadVars, videoSrc, readyState, loadUrl, controlVars, libVars>>

\* --------------------------------------------------- VideoPlayer playback
\* events of the video element that wait for dispatch, at most
MaxEvents == 2

\* an event of the video element; cause records what made the element fire
\* it, no handler reads it
media(type, cause) == [type |-> type, cause |-> cause]

\* how videoPlayer.play() can end: playback allowed, or the promise rejected
PlayOutcomes == {"played", "NotAllowedError", "NotSupportedError"}

\* videoPlayer.play(): a paused element starts playing and queues 'playing',
\* with which the promise resolves; a playing one only resolves the promise;
\* a refused one rejects it
play(answer) ==
    IF answer = "played"
    THEN /\ paused' = FALSE
         /\ mediaEvents' = Append(mediaEvents,
                                  media(IF paused THEN "playing" ELSE "resolved",
                                        "playVideo"))
    ELSE /\ mediaEvents' = Append(mediaEvents, media("rejected", answer))
         /\ UNCHANGED paused

\* videoPlayer.pause(): an element that is playing pauses and queues 'pause'
pause(cause) ==
    /\ paused' = TRUE
    /\ mediaEvents' = IF paused THEN mediaEvents
                      ELSE Append(mediaEvents, media("pause", cause))

\* a playVideo that does not look at the readiness level
playVideoNoReadyCheck ==
    IF videoSrc # <<>> \/ currentVideo # <<>>
    THEN "play"
    ELSE "No video loaded. Please load a video first."

\* playVideo(): which of its branches a request takes
playVideoVerdict ==
    IF videoSrc # <<>> \/ currentVideo # <<>>
    THEN IF readyState >= HaveFutureData
         THEN "play"
         ELSE "Video is still loading, please wait..."
    ELSE "No video loaded. Please load a video first."

\* playVideo(), up to the call of play()
playVideo(answer) ==
    /\ answer \in PlayOutcomes
    /\ IF playVideoVerdict = "play"
       THEN /\ Len(mediaEvents) < MaxEvents
            /\ play(answer)
            /\ UNCHANGED <<playerNotification, playerPlayback>>
       ELSE /\ playerNotification' = playVideoVerdict
            /\ playerPlayback' = IF videoSrc # <<>> \/ currentVideo # <<>>
                                 THEN "Video loading..." ELSE playerPlayback
            /\ UNCHANGED <<paused, mediaEvents>>
    /\ UNCHANGED <<isLoading, currentVideo, videoSrc, readyState, loadPc, loadUrl,
                   loadStatus, loadResult, race, stale, elapsed, userInitiatedPause,
                   libVars>>

\* pauseVideo()
pauseVideo ==
    /\ ~paused => Len(mediaEvents) < MaxEvents
    /\ userInitiatedPause' = TRUE
    /\ pause("pauseVideo")
    /\ playerPlayback' = "Paused"
    /\ UNCHANGED <<isLoading, currentVideo, videoSrc, readyState, loadPc, loadUrl,
                   loadStatus, playerNotification, loadResult, race, stale, elapsed,
                   libVars>>

\* stopVideo()
stopVideo ==
    /\ ~paused => Len(mediaEvents) < MaxEvents
    /\ pause("stopVideo")
    /\ playerPlayback' = "Stopped"
    /\ UNCHANGED <<isLoading, currentVideo, videoSrc, readyState, loadPc, loadUrl,
                   loadStatus, playerNotification, loadResult, race, stale, elapsed,
                   userInitiatedPause, libVars>>

\* the platform pauses the element that is playing (the 'automatic pause' of
\* the pause listener)
PlatformPause ==
    /\ ~paused
    /\ Len(mediaEvents) < MaxEvents
    /\ pause("platform")
    /\ UNCHANGED <<isLoading, currentVideo, videoSrc, readyState, loadPc, loadUrl,
                   loadStatus, playerNotification, loadResult, race, stale, elapsed,
                   userInitiatedPause, playerPlayback, libVars>>

\* the listener of 'pause': the status it leaves and the flag it leaves
onPause ==
    IF userInitiatedPause
    THEN [status |-> "Paused", flag |-> FALSE]
    ELSE [status |-> playerPlayback, flag |-> userInitiatedPause]

\* the oldest queued event of the element is dispatched: the listeners of
\* 'playing' and 'pause', and the then and catch of playVideo's promise
DispatchMedia ==
    /\ mediaEvents # <<>>
    /\ mediaEvents' = Tail(mediaEvents)
    /\ LET e == Head(mediaEvents)
       IN  CASE e.type = "playing"
                  -> /\ userInitiatedPause' = FALSE
                     /\ playerPlayback' = "Playing"
                     /\ UNCHANGED playerNotification
             [] e.type = "resolved"
                  -> /\ playerPlayback' = "Playing"
                     /\ UNCHANGED <<userInitiatedPause, playerNotification>>
             [] e.type = "pause"
                  -> /\ playerPlayback' = onPause.status
                     /\ userInitiatedPause' = onPause.flag
                     /\ UNCHANGED playerNotification
             [] e.type = "rejected" /\ e.cause = "NotAllowedError"
                  -> /\ playerPlayback' = "Autoplay blocked - click Play again"
                     /\ playerNotification'
                           = "Please click Play again - autoplay was blocked"
                     /\ UNCHANGED userInitiatedPause
             [] OTHER
                  -> /\ playerPlayback' = "Play failed: " \o e.cause
                     /\ playerNotification' = "Playback error: " \o e.cause
                     /\ UNCHANGED userInitiatedPause
    /\ UNCHANGED <<isLoading, currentVideo, videoSrc, readyState, loadPc, loadUrl,
                   loadStatus, loadResult, race, stale, elapsed, paused, libVars>>

\* ---------------------------------------------------------- specifications
\* The application after construction.
Init == InitLibrary /\ InitPlayer

\* The library is empty and idle while the player is looked at.
InitIdle == Init /\ videos = <<>> /\ dirExists = FALSE

\* Downloads and library listings.
NextDownload == Tick \/ DownloadStep \/ ListingStep
SpecDownload == Init /\ [][NextDownload]_vars

\* Every storage callback arrives, and every request ends with a load, an
\* error or, after xhr.timeout, a timeout event.
FairDownload ==
    /\ WF_vars(\E i \in 1..Len(tasks) : FileExistsCallback(i))
    /\ WF_vars(\E i \in 1..Len(tasks),
                  answer \in {"created", "InvalidValuesError", "IOError"},
                  computable \in BOOLEAN : DownloadEnsureDir(i, answer, computable))
    /\ WF_vars(\E i \in 1..Len(tasks) :
                  \/ \E status \in HttpStatuses : XhrLoad(i, status)
                  \/ XhrError(i)
                  \/ XhrTimeout(i))

\* Downloads alone, with the clock.
NextTransfer == Tick \/ DownloadStep
SpecTransfer == Init /\ [][NextTransfer]_vars
FairSpecTransfer == SpecTransfer /\ FairDownload

\* Downloads and the timers that reset the progress indicator.
NextIndicator == DownloadStep \/ ResetFires
SpecIndicator == Init /\ [][NextIndicator]_vars

\* Clear-all, deletes and library listings.
NextClear == ClearStep \/ DeleteStep \/ ListingStep
SpecClear == Init /\ [][NextClear]_vars

\* Clearing and listing alone, a clear-all asked for when none is running (its
\* overlay covers the controls until it ends); the storage callbacks arrive.
\* Fairness is strong for the callbacks of clearAllVideos: MaxListings may
\* hold the last one back while a refresh is in flight.
NextClearAll ==
    \/ clears = <<>> /\ ClearAllVideos
    \/ \E c \in 1..Len(clears), ok \in BOOLEAN : ClearListCallback(c, ok)
    \/ \E c \in 1..Len(clears), ok \in BOOLEAN : ClearDeleteCallback(c, ok)
    \/ ListingStep
SpecClearAll == Init /\ [][NextClearAll]_vars
FairClearAll ==
    /\ SF_vars(\E c \in 1..Len(clears), ok \in BOOLEAN : ClearListCallback(c, ok))
    /\ SF_vars(\E c \in 1..Len(clears), ok \in BOOLEAN : ClearDeleteCallback(c, ok))
    /\ WF_vars(\E answer \in createDirectoryOutcomes : ListEnsureDir(answer))
    /\ WF_vars(\E ok \in BOOLEAN : ListFilesCallback(ok))
FairSpecClearAll == SpecClearAll /\ FairClearAll

\* no downloadVideo, loadVideoLibrary, clearAllVideos or deleteVideo in flight
idle ==
    /\ tasks = <<>>
    /\ clears = <<>>
    /\ deletes = <<>>
    /\ listEnsuring + listListing = 0

\* The whole library, one operation at a time: a download, a refresh, a
\* clear-all or a delete is asked for when nothing is in flight.
NextTurns ==
    \/ Tick
    \/ idle /\ \E url \in Urls : HandleDownload(url)
    \/ idle /\ LoadVideoLibrary
    \/ idle /\ ClearAllVideos
    \/ idle /\ \E k \in 1..Len(videoList.items) : DeleteVideo(k)
    \/ \E i \in 1..Len(tasks) : FileExistsCallback(i)
    \/ \E i \in 1..Len(tasks), answer \in {"created", "InvalidValuesError", "IOError"},
          computable \in BOOLEAN : DownloadEnsureDir(i, answer, computable)
    \/ \E i \in 1..Len(tasks) : XhrProgress(i)
    \/ \E i \in 1..Len(tasks), status \in HttpStatuses : XhrLoad(i, status)
    \/ \E i \in 1..Len(tasks) : XhrError(i)
    \/ \E i \in 1..Len(tasks) : XhrTimeout(i)
    \/ \E answer \in {"created", "InvalidValuesError", "IOError"} : ListEnsureDir(answer)
    \/ \E ok \in BOOLEAN : ListFilesCallback(ok)
    \/ \E c \in 1..Len(clears), ok \in BOOLEAN : ClearListCallback(c, ok)
    \/ \E c \in 1..Len(clears), ok \in BOOLEAN : ClearDeleteCallback(c, ok)
    \/ \E d \in 1..Len(deletes) : DeleteResolveCallback(d)
    \/ \E d \in 1..Len(deletes), ok \in BOOLEAN : DeleteFileCallback(d, ok)
SpecTurns == Init /\ [][NextTurns]_vars

\* The library listing and playback from it.
NextPlayback == ListingStep \/ PlaybackStep
SpecPlayback == Init /\ [][NextPlayback]_vars

\* Storage callbacks arrive; the media element owes no event.
FairPlayback ==
    /\ WF_vars(\E answer \in createDirectoryOutcomes : ListEnsureDir(answer))
    /\ WF_vars(\E ok \in BOOLEAN : ListFilesCallback(ok))
FairSpecPlayback == SpecPlayback /\ FairPlayback

\* The player: load requests, the readiness race, the platform and the clock.
NextPlayer ==
    \/ \E url \in PlayerUrls : HandleLoadVideo(url)
    \/ ProbeSettles
    \/ \E e \in Signals : FireEvent(e)
    \/ \E level \in 1..HaveEnoughData : ReadyStateRises(level)
    \/ RaceTimeout
    \/ RaceCheck
    \/ RaceInterval
    \/ \E s \in stale, which \in {"timeout", "check", "interval"} : StaleTimer(s, which)
    \/ TickPlayer
SpecPlayer == InitIdle /\ [][NextPlayer]_vars

\* Timers fire when due and time passes.
FairPlayer ==
    /\ WF_vars(TickPlayer)
    /\ WF_vars(RaceTimeout)
    /\ WF_vars(RaceCheck)
    /\ WF_vars(RaceInterval)
    /\ WF_vars(\E s \in stale, which \in {"timeout", "check", "interval"} :
                  StaleTimer(s, which))
\* Play requests around one load of a URL: the load with its race and
\* timers, the play button and the dispatch of the element's events.
NextPlay ==
    \/ loadResult = "none" /\ \E url \in {UrlClip, UrlEmpty} : HandleLoadVideo(url)
    \/ ProbeSettles
    \/ \E e \in Signals : FireEvent(e)
    \/ \E level \in 1..HaveEnoughData : ReadyStateRises(level)
    \/ RaceTimeout
    \/ RaceCheck
    \/ RaceInterval
    \/ TickPlayer
    \/ \E answer \in PlayOutcomes : playVideo(answer)
    \/ DispatchMedia
SpecPlay == InitIdle /\ [][NextPlay]_vars

\* The playback controls within the first second of one load of a URL: the
\* buttons, the platform and the dispatch of the element's events.
NextControls ==
    \/ loadResult = "none" /\ \E url \in {UrlClip, UrlEmpty} : HandleLoadVideo(url)
    \/ ProbeSettles
    \/ \E e \in Signals : FireEvent(e)
    \/ \E level \in 1..HaveEnoughData : ReadyStateRises(level)
    \/ \E answer \in PlayOutcomes : playVideo(answer)
    \/ pauseVideo
    \/ stopVideo
    \/ PlatformPause
    \/ DispatchMedia
SpecControls == InitIdle /\ [][NextControls]_vars

FairSpecPlayer == SpecPlayer /\ FairPlayer


\* ------------------------------------------------------------------ claims
StorageErrors ==
    { <<"Failed to create videos directory">>, <<"Failed to read video data">>,
      <<"Failed to create file">>, <<"Failed to write file">> }

\* the entries #video-list shows for the file called name with size bytes
shown(name, size) ==
    {k \in 1..Len(videoList.items) :
        videoList.items[k].name = name /\ videoList.items[k].size = size}

\* C1: once a download that the server answered in full with status 200, and
\* that met no storage failure, has ended and the library has been listed
\* again, the library shows exactly one entry with the download's file name,
\* of the content's length.
C1_DownloadedEntryListed ==
    (/\ lastResult.status = 200
     /\ lastResult.error \notin StorageErrors
     /\ lastResult.listed
     /\ videoList.msg \in {"", "No videos downloaded yet"})
    => Cardinality(shown(lastResult.filename, contentLength(lastResult.url))) = 1

\* the XMLHttpRequest transfers in flight
transfers == {i \in 1..Len(tasks) : tasks[i].pc = "transferring"}

BusyNotification == <<"Download already in progress">>

\* C2: at most one download, hence at most one transfer, is in flight, and
\* isDownloading is true exactly while it is; while isDownloading is true no
\* request starts a download or a transfer, and a request answered with
\* 'Download already in progress' was made while isDownloading and starts
\* nothing.
C2_SingleFlight ==
    /\ [](/\ Len(tasks) <= 1
          /\ Cardinality(transfers) <= 1
          /\ isDownloading <=> Len(tasks) = 1)
    /\ [][isDownloading => Len(tasks') <= Len(tasks)]_vars
    /\ [][(notification' = BusyNotification /\ notification # BusyNotification)
             => (isDownloading /\ UNCHANGED <<isDownloading, tasks, lastResult>>)]_vars

\* C2 witness: a request was answered 'Download already in progress' while a
\* transfer is in flight.
C2_Witness ==
    /\ notification = BusyNotification
    /\ isDownloading
    /\ transfers # {}

DuplicateError == <<"Video already exists in library">>

\* C3: a download whose destination file name existed in videos/ when
\* fileExists looked goes no further: it ends with 'Video already exists in
\* library', having started no transfer.
C3_DuplicateBeforeTransfer ==
    /\ \A i \in 1..Len(tasks) : ~tasks[i].existed
    /\ lastResult.existed => lastResult.error = DuplicateError
    /\ lastResult.error = DuplicateError => lastResult.sent = 0

\* C3 witness: a download was rejected because its file name existed.
C3_Witness ==
    /\ lastResult.existed
    /\ lastResult.error = DuplicateError
    /\ lastResult.filename \in names(videos)

\* C7: a clearAllVideos loop in which exactly one delete failed removed the
\* other N-1 entries and reported N-1 as the number deleted.
C7_ClearReportsRemoved ==
    lastClear.failed = 1
    => /\ lastClear.removed = lastClear.total - 1
       /\ lastClear.reported = ToString(lastClear.total - 1)


\* the latest race has run past its deadline and one poll period more
pastDeadline == race.promise # "none" /\ elapsed > Deadline + PollPeriod

\* C4 as claimed: when no signal has fired since the race started and the
\* deadline has passed, the outcome is TimedOut, produced no earlier than the
\* deadline and no later than the deadline plus one poll period.
C4_NoSignalTimesOut ==
    (pastDeadline /\ race.first = "none")
    => /\ outcome(race) = "TimedOut"
       /\ race.at >= Deadline
       /\ race.at <= Deadline + PollPeriod

\* C4: when no signal has fired since the race started, no poll tick of the
\* race found the readiness level sufficient, and the deadline has passed, the
\* outcome is TimedOut, produced no earlier than the deadline and no later than
\* the deadline plus one poll period; a race is never unresolved after its
\* deadline.
C4_QuietRaceTimesOut ==
    /\ (pastDeadline /\ race.first = "none" /\ ~race.sawLevel)
       => /\ outcome(race) = "TimedOut"
          /\ race.at >= Deadline
          /\ race.at <= Deadline + PollPeriod
    /\ elapsed > Deadline => race.promise # "pending"

\* C4 witness: a race without a signal and without a sufficient readiness
\* level at its poll ticks has run past its deadline.
C4_Witness ==
    /\ pastDeadline /\ race.first = "none" /\ ~race.sawLevel
    /\ outcome(race) = "TimedOut"

\* C5: when the first signal of a race is error, fired while the race is
\* unresolved, the outcome is Failed and stays so, loadVideo throws, and
\* resolve or reject has been called exactly once, whatever fires later.
C5_ErrorFirstFails ==
    (race.first = "error" /\ race.firstRacing)
    => /\ outcome(race) = "Failed"
       /\ race.calls = 1
       /\ loadPc = "idle" => loadResult = "threw"

\* C5 witness: after an error signal settled the race, the signal listeners
\* are gone and the periodic check has fired again with a sufficient level.
C5_Witness ==
    /\ race.first = "error" /\ race.firstRacing
    /\ outcome(race) = "Failed"
    /\ readyState >= HaveMetadata
    /\ race.interval = -1
    /\ elapsed >= PollPeriod

BusyLoading == "Video loading already in progress"

\* a load request with a valid URL has been answered: accepted or rejected
loadRequestAnswered ==
    /\ playerNotification' \in {"Loading video...", BusyLoading}
    /\ playerNotification' # playerNotification

C8_ExactlyOneOutcome ==
    /\ [](/\ race.calls <= 1
          /\ race.promise \in {"fulfilled", "rejected"} <=> race.calls = 1)
    /\ (race.promise = "pending") ~> (race.promise # "pending")

\* C8 witness: a race that saw no signal and no sufficient readiness level
\* has reached its outcome.
C8_Witness ==
    /\ race.first = "none" /\ readyState = 0
    /\ race.promise = "fulfilled" /\ race.calls = 1

\* C9: when the first signal of a race is canplay, canplaythrough or
\* loadeddata, fired while the race is unresolved, the outcome is Ready and
\* stays so, loadVideo returns, and resolve or reject has been called exactly
\* once, whatever fires later.
C9_SuccessFirstReady ==
    (race.first \in SuccessSignals /\ race.firstRacing)
    => /\ outcome(race) = "Ready"
       /\ race.calls = 1
       /\ loadPc = "idle" => loadResult = "returned"

\* C9 witness: after a success signal settled the race, the one-shot check
\* has fired with a sufficient level.
C9_Witness ==
    /\ race.first \in SuccessSignals /\ race.firstRacing
    /\ outcome(race) = "Ready"
    /\ readyState >= HaveCurrentData
    /\ race.oneShot = -1
    /\ elapsed >= FirstCheck

\* C10: when the deadline settled the latest race, loadVideo has returned,
\* currentVideo is the requested URL and the status is 'Video loaded'; when
\* loadVideo has thrown, the outcome of its race is Failed.
C10_TimedOutIsSuccess ==
    loadPc = "idle"
    => /\ race.by = "timeout"
          => /\ loadResult = "returned"
             /\ currentVideo = loadUrl
             /\ currentVideo = videoSrc
             /\ loadStatus = "Video loaded"
       /\ loadResult = "threw" => outcome(race) = "Failed"

\* C10 witness: a load has ended with the outcome TimedOut.
C10_Witness ==
    /\ loadPc = "idle"
    /\ outcome(race) = "TimedOut"
    /\ loadResult = "returned"

\* how a downloadVideo invocation that was accepted can end
DownloadOutcomes ==
    { <<"Video already exists in library">>, <<"Failed to create videos directory">>,
      <<"Network error occurred">>, <<"Download timeout">> }
    \cup {httpMessage(XMLHttpRequest(status)) : status \in HttpStatuses}

\* C11: the single-flight slot is held exactly while a downloadVideo
\* invocation is in flight; every invocation ends, with one of the outcomes a
\* download has, and once it has ended no request is answered 'Download
\* already in progress'.
C11_SlotReleased ==
    /\ [](/\ isDownloading <=> Len(tasks) >= 1
          /\ lastResult.error # <<"none">> => lastResult.error \in DownloadOutcomes
          /\ Len(tasks) = 0
                => \A url \in Urls :
                      handleDownloadVerdict(url) # "Download already in progress")
    /\ isDownloading ~> ~isDownloading

\* C11 witness: a download that failed in its transfer has released the slot
\* and a later request has been accepted.
C11_Witness ==
    /\ lastResult.error = <<"Network error occurred">>
    /\ isDownloading
    /\ Len(tasks) = 1

\* the messages of an HttpStatusError
HttpErrors == {httpMessage(XMLHttpRequest(status)) : status \in HttpStatuses}

\* the rejections of downloadWithProgress
TransferErrors ==
    {<<"Network error occurred">>, <<"Download timeout">>}
    \cup {httpMessage(XMLHttpRequest(status)) : status \in HttpStatuses \ {200}}

\* C12: the promise of downloadWithProgress is unsettled while the request is
\* in flight and no request means no result; a download that sent its request
\* has ended with one result: fulfilled with the whole content, or rejected
\* with a network, HTTP-status or timeout error, with no bytes and with no
\* file of its name in videos/.
C12_OneTransferResult ==
    /\ \A i \in 1..Len(tasks) : tasks[i].transfer = NoTransfer
    /\ lastResult.sent = 0 => lastResult.transfer = NoTransfer
    /\ lastResult.sent > 0
          => \/ /\ lastResult.transfer.state = "fulfilled"
                /\ lastResult.transfer.reason = <<>>
                /\ lastResult.transfer.bytes = contentLength(lastResult.url)
             \/ /\ lastResult.transfer.state = "rejected"
                /\ lastResult.transfer.reason \in TransferErrors
                /\ lastResult.transfer.bytes = 0
                /\ lastResult.filename \notin names(videos)

\* C12 witness: a transfer has ended with the timeout error while videos/
\* holds files, none of them the download's.
C12_Witness ==
    /\ lastResult.sent = 1
    /\ lastResult.transfer.state = "rejected"
    /\ lastResult.transfer.reason = <<"Download timeout">>
    /\ lastResult.filename \notin names(videos)
    /\ videos # <<>>

\* C13: a download whose request was answered with a status outside 200..299
\* has a transfer rejected with the HTTP error carrying that status; one
\* answered with a status in 200..299 has a transfer fulfilled with the whole
\* content, and has not ended with an HTTP error.
C13_StatusDecidesTransfer ==
    (lastResult.sent > 0 /\ lastResult.status # 0)
    => IF lastResult.status \in 200..299
       THEN /\ lastResult.transfer.state = "fulfilled"
            /\ lastResult.transfer.bytes = contentLength(lastResult.url)
            /\ lastResult.error \notin HttpErrors
       ELSE /\ lastResult.transfer.state = "rejected"
            /\ lastResult.transfer.code = lastResult.status
            /\ lastResult.transfer.reason =
                  httpMessage(XMLHttpRequest(lastResult.status))

\* the notifications of a request that validation rejected
ValidationErrors ==
    { <<"Please enter a video URL">>, <<"Please enter a valid URL">>,
      <<"Unsupported video format">> }

\* the extension of the file a URL names, read as generateFilename reads it:
\* the last segment of the path, without the query parameters
fileExtension(url) ==
    LET urlParts == split(url, "/")
        noQuery == split(urlParts[Len(urlParts)], "?")[1]
        nameParts == split(noQuery, ".")
    IN  IF Len(nameParts) >= 2 THEN toLowerCase(pop(nameParts)) ELSE <<>>

inAllowlist(url) ==
    \E i \in 1..Len(supportedFormats) : fileExtension(url) = <<supportedFormats[i]>>

\* C14: a request whose URL is syntactically valid and names a file with an
\* allowlisted extension is accepted or answered busy; every other request is
\* answered with a validation error and changes neither the downloads, the
\* single-flight slot nor the storage.
C14_ValidationRejects ==
    [][\A url \in Urls :
          HandleDownload(url)
          => IF isValidUrl(url) /\ inAllowlist(url)
             THEN isDownloading \/ Len(tasks') = Len(tasks) + 1
             ELSE /\ notification' \in ValidationErrors
                  /\ UNCHANGED <<tasks, isDownloading, lastResult, videos, dirExists>>]_vars

\* C15: no two files of videos/ have the same name; a download that has
\* passed its fileExists check has a name no file of videos/ has; and no step
\* replaces a file: a file whose name stays in videos/ stays as it was.
C15_NamesUnique ==
    /\ [](/\ Cardinality(names(videos)) = Len(videos)
          /\ \A i \in 1..Len(tasks) :
                tasks[i].pc \in {"ensuring", "transferring"}
                => tasks[i].filename \notin names(videos))
    /\ [][\A j \in 1..Len(videos) :
             videos[j].name \in names(videos')
             => \E k \in 1..Len(videos') : videos'[k] = videos[j]]_vars

\* C15 witness: after a file was deleted, a download whose name one of the two
\* files left has was rejected as a duplicate.
C15_Witness ==
    /\ lastResult.existed
    /\ lastResult.filename \in names(videos)
    /\ Len(videos) = 2
    /\ Cardinality(names(videos)) = 2

\* a file name that ends with a dot and a supported extension, in any case
supportedName(name) ==
    /\ Len(name) >= 2
    /\ name[Len(name) - 1] = "."
    /\ \E i \in 1..Len(supportedFormats) :
          LowerWord(name[Len(name)]) = supportedFormats[i]

\* the files of a directory listing with a supported extension
projection(files) == SelectSeq(files, LAMBDA file : supportedName(file.name))

listingShown == videoList.msg \in {"", "No videos downloaded yet"}

C17_DeleteExactlyOne ==
    [][\A d \in 1..Len(deletes) :
          deletes' = RemoveAt(deletes, d)
          => LET name == deletes[d].name
             IN  /\ (deletes[d].pc = "resolving" /\ name \notin names(videos))
                       => notification' = <<"Video not found">>
                 /\ notification' \in {<<"Video not found">>, <<"Failed to delete video">>}
                       => videos' = videos
                 /\ notification' = <<"Video deleted successfully">>
                       => /\ name \in names(videos)
                          /\ names(videos') = names(videos) \ {name}
                          /\ Len(videos') = Len(videos) - 1
                          /\ \A k \in 1..Len(videos') :
                                \E j \in 1..Len(videos) : videos'[k] = videos[j]
                 /\ notification' \in {<<"Video not found">>, <<"Failed to delete video">>,
                                      <<"Video deleted successfully">>}]_vars

\* C17 witness: a deleteVideo of an entry that a clear-all had removed in the
\* meantime has ended with 'Video not found' while videos/ holds a file.
C17_Witness ==
    /\ notification = <<"Video not found">>
    /\ deletes = <<>>
    /\ videos # <<>>

DirectoryError == <<"Failed to create videos directory">>

\* C18: a createDirectory failure ends downloadVideo with the error shown and
\* the slot released, and ends loadVideoLibrary with the error shown and no
\* listing started; a deleteFile failure ends deleteVideo with the error
\* shown; a listFiles failure ends clearAllVideos with the error shown and
\* loadVideoLibrary with 'Failed to load videos' in the list.
C18_StorageErrorsSurface ==
    [][/\ \A i \in 1..Len(tasks), computable \in BOOLEAN :
             DownloadEnsureDir(i, "IOError", computable)
             => /\ tasks' = RemoveAt(tasks, i)
                /\ ~isDownloading'
                /\ lastResult'.error = DirectoryError
                /\ notification' = <<"Download failed: ">> \o DirectoryError
                /\ downloadStatus' = <<"Download failed: ">> \o DirectoryError
       /\ ListEnsureDir("IOError")
             => /\ notification' = <<"Failed to load library: ">> \o DirectoryError
                /\ listEnsuring' = listEnsuring - 1
                /\ listListing' = listListing
       /\ \A d \in 1..Len(deletes) :
             DeleteFileCallback(d, FALSE)
             => /\ notification' = <<"Failed to delete video">>
                /\ deletes' = RemoveAt(deletes, d)
       /\ \A c \in 1..Len(clears) :
             ClearListCallback(c, FALSE)
             => /\ notification' = <<"Failed to clear videos">>
                /\ clears' = RemoveAt(clears, c)
       /\ ListFilesCallback(FALSE)
             => /\ videoList'.msg = "Failed to load videos"
                /\ listListing' = listListing - 1]_vars

\* C18 witness: a download has ended because the videos directory could not
\* be created.
C18_Witness ==
    /\ lastResult.error = DirectoryError
    /\ notification = <<"Download failed: ">> \o DirectoryError
    /\ ~isDownloading
    /\ idle

\* C19 (playVideoFromLibrary): an assignment of a media source by
\* playVideoFromLibrary is followed by a readiness outcome for it: the element
\* reported ready, reported failed, or a deadline declared it timed out.
MediaOutcomes == {"canplay", "error", "timedout"}
C19_LibraryAssignmentSettles ==
    (managerSrc # <<>> /\ managerMedia \notin MediaOutcomes)
        ~> (managerMedia \in MediaOutcomes)

\* C20 (handleDownload, isSupportedFormat, generateFilename): a download request
\* for the extension-less URL https://host/clip, made while no download is in
\* flight, is accepted: it starts a download whose file is clip_<timestamp>.mp4.
C20_ExtensionlessAccepted ==
    [][(HandleDownload(UrlNoExt) /\ ~isDownloading)
          => /\ isDownloading'
             /\ Len(tasks') = Len(tasks) + 1
             /\ tasks'[Len(tasks')].url = UrlNoExt
             /\ tasks'[Len(tasks')].filename = <<"clip", "_", ToString(now), ".", "mp4">>]_vars

\* C21 (downloadWithProgress, downloadVideo): while a transfer is in flight the
\* caller can cancel it: a step exists that ends the download with
\* CancelledError and releases the single-flight slot, so that the next
\* request is accepted.
C21_TransferCancellable ==
    transfers # {}
        => ENABLED (/\ NextTransfer
                    /\ ~isDownloading'
                    /\ lastResult'.error = <<"CancelledError">>)

\* C22 (downloadWithProgress, downloadVideo): within one download every
\* progress callback forwards a value at least as large as the one before it,
\* and the value is the rounded share of the bytes received so far.
C22_ProgressNonDecreasing ==
    [][\A i \in 1..Len(tasks) :
          XhrProgress(i)
              => /\ tasks'[i].progress >= tasks[i].progress
                 /\ tasks[i].computable
                       => /\ tasks'[i].progress
                                = percentage(tasks'[i].loaded, ContentLength)
                          /\ downloadStatus' = <<"Downloading... ",
                                                 ToString(tasks'[i].progress), "%">>
                 /\ ~tasks[i].computable
                       => UNCHANGED <<downloadStatus>> /\ tasks'[i].progress = 0]_vars
\* a download has forwarded two progress values, the second one 100%
C22_Witness ==
    \E i \in 1..Len(tasks) :
        /\ tasks[i].computable
        /\ tasks[i].loaded = ContentLength
        /\ tasks[i].loaded >= 2
        /\ tasks[i].progress = 100

C24_SettledRaceDisarmed ==
    outcome(race) \in {"Ready", "Failed", "TimedOut"} => ~armed(race)

\* C25 (loadVideo, poll timers): a one-shot check that finds the race
\* unresolved and the readiness level at HAVE_CURRENT_DATA or above, and a
\* periodic check that finds the race unresolved and the level at
\* HAVE_METADATA or above, resolve the race Ready at that tick, which comes
\* before the deadline.
C25_PollResolvesReady ==
    [][/\ (RaceCheck /\ race.promise = "pending" /\ readyState >= HaveCurrentData)
          => /\ outcome(race)' = "Ready"
             /\ race'.by = "check"
             /\ race'.at = elapsed
             /\ elapsed = FirstCheck
       /\ (RaceInterval /\ race.promise = "pending" /\ readyState >= HaveMetadata)
          => /\ outcome(race)' = "Ready"
             /\ race'.by = "interval"
             /\ race'.at = elapsed
             /\ elapsed < Deadline]_vars
\* no event has fired, the level was HAVE_METADATA at the second periodic
\* check, and the race ended Ready there
C25_Witness ==
    /\ race.first = "none"
    /\ outcome(race) = "Ready"
    /\ race.by = "interval"
    /\ race.at = 2 * PollPeriod
    /\ readyState = HaveMetadata

\* the closures of readiness races whose promise nothing has settled yet
unresolved == {c \in stale \cup {race} : ~c.resolved}

\* C26 (handleLoadVideo, loadVideo): at most one readiness race is unresolved,
\* and it is the race of the load in flight; a load request with a valid URL
\* made while isLoading is answered 'Video loading already in progress' and
\* leaves the player's source, the race and the load in flight as they were.
C26_OneRaceAtATime ==
    /\ [](/\ Cardinality(unresolved) <= 1
          /\ unresolved \subseteq {race}
          /\ ~race.resolved => (isLoading /\ loadPc = "racing"))
    /\ [][\A url \in PlayerUrls :
              (/\ isLoading
               /\ url # <<>> /\ isValidUrl(url)
               /\ HandleLoadVideo(url))
              => /\ playerNotification' = BusyLoading
                 /\ UNCHANGED <<videoSrc, readyState, race, stale, loadUrl, loadPc,
                                isLoading, currentVideo, loadStatus, loadResult>>]_vars
\* a request was turned away in the middle of the first race
C26_Witness ==
    /\ playerNotification = BusyLoading
    /\ unresolved = {race}
    /\ stale = {}
    /\ elapsed > 0
    /\ videoSrc = UrlNoExt

\* C27 (clearAllVideos): while the loop runs, the entries attempted so far
\* are the first deletedCount entries of the listing, in listing order, fewer
\* than all of them; a loop that has ended attempted every entry of its
\* listing once, in listing order, each attempt a success or a failure; the
\* step that ends it shows the final notification and starts a library
\* refresh; and every clearAll that starts ends.
C27_ClearAttemptsEachOnce ==
    /\ [](/\ \A c \in 1..Len(clears) :
                clears[c].pc = "deleting"
                  => /\ clears[c].deletedCount < Len(clears[c].videoFiles)
                     /\ clears[c].attempted
                           = SubSeq(nameList(clears[c].videoFiles), 1,
                                    clears[c].deletedCount)
                     /\ clears[c].removed + clears[c].failed
                           = clears[c].deletedCount
          /\ lastClear # NoClear
                => /\ lastClear.attempted = lastClear.listing
                   /\ Len(lastClear.attempted) = lastClear.total
                   /\ lastClear.total >= 1
                   /\ lastClear.removed + lastClear.failed = lastClear.total)
    /\ [][lastClear' # lastClear
             => /\ notification' = <<"Deleted ", ToString(lastClear'.total), " videos">>
                /\ videoList' = LoadingList
                /\ listEnsuring' = listEnsuring + 1
                /\ Len(clears') = Len(clears) - 1]_vars
    /\ (clears # <<>>) ~> (clears = <<>>)
\* a loop over two entries has ended with its first delete failed and its
\* second done
C27_Witness ==
    /\ lastClear.total = 2
    /\ lastClear.failed = 1
    /\ lastClear.removed = 1
    /\ lastClear.attempted = <<FileOld.name, FileClip2.name>>
    /\ names(videos) = {FileOld.name, FileNotes.name}
    /\ clears = <<>>

\* C28 (deleteVideo, loadVideoLibrary): whatever listings are in flight, a
\* deleteVideo whose file is in videos/ gets past resolve without a
\* notification, and its deleteFile success callback removes the file, shows
\* 'Video deleted successfully' and starts a listing; once nothing is in
\* flight, #video-list shows no entry whose file is gone from videos/.
C28_DeleteDuringListing ==
    /\ [][\A d \in 1..Len(deletes) :
              /\ (DeleteResolveCallback(d) /\ resolves(deletes[d].name))
                    => /\ Len(deletes') = Len(deletes)
                       /\ deletes'[d].pc = "deleting"
                       /\ UNCHANGED <<notification, videoList>>
              /\ DeleteFileCallback(d, TRUE)
                    => /\ notification' = <<"Video deleted successfully">>
                       /\ deletes[d].name \notin names(videos')
                       /\ videoList' = LoadingList
                       /\ listEnsuring' = listEnsuring + 1]_vars
    /\ [](idle => \A k \in 1..Len(videoList.items) :
                     videoList.items[k].name \in names(videos))
\* a file was deleted while a listing was in flight: the listing of the
\* delete and the other one are both under way
C28_Witness ==
    /\ notification = <<"Video deleted successfully">>
    /\ deletes = <<>>
    /\ clears = <<>>
    /\ listEnsuring = 1
    /\ listListing = 1
    /\ FileClip2.name \notin names(videos)
    /\ FileOld.name \in names(videos)

\* URLs whose query string holds what looks like a file name
UrlSlashQuery ==
    <<"https:", "/", "/", "host", "/", "clip", ".", "avi", "?", "a", "/", "b", ".", "mp4">>
UrlStream == <<"https:", "/", "/", "host", "/", "clip", "?", "f", ".", "mp4">>
NameUrls == Urls \cup {UrlSlashQuery, UrlStream}

\* Download requests over NameUrls, up to the first failure of each.
NextNames ==
    \/ Tick
    \/ \E url \in NameUrls : HandleDownload(url)
    \/ \E i \in 1..Len(tasks) : FileExistsCallback(i)
    \/ \E i \in 1..Len(tasks), answer \in createDirectoryOutcomes, computable \in BOOLEAN :
          DownloadEnsureDir(i, answer, computable)
    \/ \E i \in 1..Len(tasks) : XhrError(i)
SpecNames == Init /\ [][NextNames]_vars

\* the last segment of the path of a URL: the query string goes first, then
\* everything up to the last "/"
lastPathSegment(url) == pop(split(split(url, "?")[1], "/"))

\* the name the file of a URL is to get at time t: the last path segment, or
\* video_<t>.mp4 when the segment has no extension, with _<t> put before the
\* last extension
destinationName(url, t) ==
    LET segment == lastPathSegment(url)
        filename == IF includes(segment, ".") THEN segment
                    ELSE <<"video", "_", ToString(t), ".", "mp4">>
        nameParts == split(filename, ".")
    IN  join(popped(nameParts), ".") \o <<"_", ToString(t), ".">> \o pop(nameParts)

\* C29 (generateFilename): the file name of every download that starts is
\* made from the last path segment of its URL without the query string, or
\* from video_<timestamp>.mp4 when that segment has no extension, by putting
\* the timestamp before the last extension, which stays the extension.
C29_NameFromLastSegment ==
    [][\A url \in NameUrls :
          (HandleDownload(url) /\ Len(tasks') = Len(tasks) + 1)
              => LET filename == tasks'[Len(tasks')].filename
                 IN  /\ filename = destinationName(url, now)
                     /\ pop(split(filename, "."))
                           = IF includes(lastPathSegment(url), ".")
                             THEN pop(split(lastPathSegment(url), "."))
                             ELSE <<"mp4">>]_vars

\* C30 (loadVideoLibrary): the listFiles success callback puts in #video-list
\* the files of videos/ whose name ends, in any case, with a supported
\* extension, each once and in the order of the listing, and 'No videos
\* downloaded yet' when there is none.
C30_ListingShowsSupported ==
    [][ListFilesCallback(TRUE)
          => /\ videoList'.items = projection(videos)
             /\ \A k \in 1..Len(videos) :
                   supportedName(videos[k].name)
                     => Cardinality({j \in 1..Len(videoList'.items) :
                                       videoList'.items[j] = videos[k]}) = 1
             /\ videoList'.msg = IF projection(videos) = <<>>
                                 THEN "No videos downloaded yet" ELSE ""]_vars
\* of three files the two with a supported extension are shown, the
\* upper-case one first as in the listing
C30_Witness ==
    /\ videos = <<FileOld, FileNotes, FileClip2>>
    /\ videoList = [msg |-> "", items |-> <<FileOld, FileClip2>>]
    /\ listEnsuring + listListing = 0


\* C31 (ensureVideosDirectory): the call succeeds when createDirectory made
\* videos/ and when it answered InvalidValuesError because videos/ is there;
\* either way videos/ exists afterwards with the files it had, and the
\* listing goes on; any other createDirectory error makes the call fail with
\* 'Failed to create videos directory' and changes nothing in storage. The
\* directory, once there, stays.
C31_EnsureIdempotent ==
    [][/\ \A answer \in {"created", "InvalidValuesError"} :
             /\ ListEnsureDir(answer)
                   => /\ dirExists'
                      /\ videos' = videos
                      /\ listListing' = listListing + 1
                      /\ notification' = notification
             /\ \A i \in 1..Len(tasks), computable \in BOOLEAN :
                   DownloadEnsureDir(i, answer, computable)
                      => /\ dirExists'
                         /\ videos' = videos
                         /\ tasks'[i].pc = "transferring"
       /\ ListEnsureDir("IOError")
             => /\ storeVars' = storeVars
                /\ listListing' = listListing
                /\ notification' = <<"Failed to load library: ",
                                     "Failed to create videos directory">>
       /\ dirExists => dirExists']_vars
\* a second listing got past ensureVideosDirectory while the first was still
\* waiting for listFiles, over a videos/ that holds files
C31_Witness ==
    /\ listListing = 2
    /\ dirExists
    /\ videos # <<>>


\* C32 (downloadWithProgress): the value forwarded to onProgress is the share
\* of the total received so far, as a whole percentage between 0 and 100, and
\* is forwarded only from progress events that carry a total; a transfer
\* whose events carry none has forwarded nothing, and its status line is
\* still 'Starting download...'.
C32_ProgressOnlyWithTotal ==
    \A i \in 1..Len(tasks) :
        /\ tasks[i].progress \in 0..100
        /\ 2 * tasks[i].progress * ContentLength
              \in (200 * tasks[i].loaded - ContentLength)
                    ..(200 * tasks[i].loaded + ContentLength)
              \/ ~tasks[i].computable
        /\ (tasks[i].computable /\ tasks[i].loaded > 0)
              => downloadStatus
                    = <<"Downloading... ", ToString(tasks[i].progress), "%">>
        /\ ~tasks[i].computable
              => /\ tasks[i].progress = 0
                 /\ downloadStatus = <<"Starting download...">>
\* a transfer without a total has had all its progress events
C32_Witness ==
    \E i \in 1..Len(tasks) :
        /\ tasks[i].pc = "transferring"
        /\ ~tasks[i].computable
        /\ tasks[i].loaded = ContentLength


\* C33 (loadVideo, handleLoadVideo): isLoading is true exactly while a
\* loadVideo call is in flight, from the accepted request on; once the race of
\* the call has an outcome, Ready, Failed or TimedOut, the call has ended and
\* isLoading is false; and a request with a valid URL made when no call is in
\* flight, after a failed load too, is accepted.
C33_LoadingWhileInFlight ==
    /\ [](/\ isLoading <=> loadPc \in {"probing", "racing"}
          /\ loadPc = "racing" <=> race.promise = "pending"
          /\ (loadPc = "idle" /\ race.promise # "none")
                => /\ outcome(race) \in {"Ready", "Failed", "TimedOut"}
                   /\ ~isLoading)
    /\ [][\A url \in PlayerUrls :
             (/\ loadPc = "idle"
              /\ url # <<>> /\ isValidUrl(url)
              /\ HandleLoadVideo(url))
             => /\ isLoading'
                /\ loadPc' = "probing"
                /\ playerNotification' = "Loading video..."]_vars
\* a request was accepted after a load that failed
C33_Witness ==
    /\ loadResult = "threw"
    /\ outcome(race) = "Failed"
    /\ isLoading
    /\ loadPc = "probing"


\* C34 (loadVideo): whenever no loadVideo call is in flight, currentVideo is
\* the source assigned to the player element, after a load that failed too.
C34_CurrentVideoIsSource ==
    loadPc = "idle" => currentVideo = videoSrc


C37_LoadFinishes ==
    isLoading ~> ~isLoading


\* C38 (playVideo): playVideo calls play() exactly when a source is assigned
\* or currentVideo is set and the readiness level is at least
\* HAVE_FUTURE_DATA; in every other case it shows its notification, writes
\* at most 'Video loading...' to the status line, and leaves the element as
\* it was. So the element starts playing, and a play() is answered, only in a
\* step taken with a source at level 3 or above, and after a load that
\* returned at a lower level a play request is refused.
C38_PlayNeedsReadiness ==
    /\ [][((paused /\ ~paused') \/ Len(mediaEvents') > Len(mediaEvents))
             => /\ videoSrc # <<>> \/ currentVideo # <<>>
                /\ readyState >= HaveFutureData]_vars
    /\ [][\A answer \in PlayOutcomes :
             playVideo(answer)
                => IF /\ videoSrc # <<>> \/ currentVideo # <<>>
                      /\ readyState >= HaveFutureData
                   THEN /\ Len(mediaEvents') = Len(mediaEvents) + 1
                        /\ ~paused' <=> (~paused \/ answer = "played")
                        /\ UNCHANGED <<playerNotification, playerPlayback>>
                   ELSE /\ UNCHANGED <<paused, mediaEvents, userInitiatedPause>>
                        /\ playerNotification'
                              = IF videoSrc # <<>> \/ currentVideo # <<>>
                                THEN "Video is still loading, please wait..."
                                ELSE "No video loaded. Please load a video first."
                        /\ playerPlayback'
                              \in {playerPlayback, "Video loading..."}]_vars
\* the deadline ended a load at level HAVE_CURRENT_DATA and a play request
\* was then refused
C38_Witness ==
    /\ outcome(race) = "TimedOut"
    /\ loadResult = "returned"
    /\ readyState = HaveCurrentData
    /\ playerNotification = "Video is still loading, please wait..."
    /\ playerPlayback = "Video loading..."
    /\ paused


\* C39 (pause listener, pauseVideo, stopVideo): the dispatch of a pause event
\* that stopVideo or the platform caused leaves the playback status as it
\* was; only the dispatch of a pause event that pauseVideo caused may set it
\* to 'Paused'.
C39_PauseStatusFollowsCause ==
    [][(DispatchMedia /\ Head(mediaEvents).type = "pause")
          => IF Head(mediaEvents).cause = "pauseVideo"
             THEN playerPlayback' \in {playerPlayback, "Paused"}
             ELSE playerPlayback' = playerPlayback]_vars

\* C40 (downloadVideo): while a download is in flight its progress indicator
\* is visible; no timer left by an earlier download hides it.
C40_IndicatorStaysVisible ==
    isDownloading => progressContainer = "flex"

====
